---- MODULE Spec2Model ----
(***************************************************************************)
(* A state-machine model of img2pdf: the batch converter                   *)
(* (img2pdf_converter.py: convert_image_to_pdf,                            *)
(* convert_multiple_images_to_pdf, get_supported_formats, main,            *)
(* interactive_mode) and the simple converter (simple_img2pdf.py: main).   *)
(*                                                                         *)
(* Strings are sequences of one-character strings, so that suffix          *)
(* replacement, upper-casing, pattern matching and sorting are computed.   *)
(* The image library and the file system are the environment: what         *)
(* Image.open returns for a file (mode, size) and the call at which the    *)
(* library raises are inputs drawn from small sets.                        *)
(***************************************************************************)
EXTENDS Integers, Sequences, FiniteSets, TLC

(***************************************************************************)
(* Bounds of the model.                                                    *)
(***************************************************************************)
\* at most this many of the candidate input files exist at start
MaxFiles == 3
\* at most this many converting menu choices (1-4) per interactive session
MaxRounds == 1
\* at most this many paths on the simple converter's command line
MaxArgv == 2

(***************************************************************************)
(* Strings.                                                                *)
(***************************************************************************)
\* Python's None; no string (a sequence of characters) equals it
None == <<"None">>

\* bool(s) of an optional string: None and "" are falsy
Truthy(s) == s # None /\ s # << >>

LowerCase ==
  <<"a","b","c","d","e","f","g","h","i","j","k","l","m",
    "n","o","p","q","r","s","t","u","v","w","x","y","z">>

UpperCase ==
  <<"A","B","C","D","E","F","G","H","I","J","K","L","M",
    "N","O","P","Q","R","S","T","U","V","W","X","Y","Z">>

\* the characters in code-point order (what sorted() compares by)
CodeOrder == <<"*", ".">> \o UpperCase \o LowerCase

Ord(c) == CHOOSE i \in 1..Len(CodeOrder) : CodeOrder[i] = c

UpperChar(c) ==
  IF \E i \in 1..26 : LowerCase[i] = c
  THEN UpperCase[CHOOSE i \in 1..26 : LowerCase[i] = c]
  ELSE c

\* str.upper()
Upper(s) == [i \in 1..Len(s) |-> UpperChar(s[i])]

LowerChar(c) ==
  IF \E i \in 1..26 : UpperCase[i] = c
  THEN LowerCase[CHOOSE i \in 1..26 : UpperCase[i] = c]
  ELSE c

\* str.lower()
Lower(s) == [i \in 1..Len(s) |-> LowerChar(s[i])]

\* s < t for str: the first differing character decides, a proper prefix is less
StrLess(s, t) ==
  \/ /\ Len(s) < Len(t)
     /\ \A i \in 1..Len(s) : s[i] = t[i]
  \/ \E k \in 1..Len(s) :
       /\ k <= Len(t)
       /\ \A i \in 1..(k-1) : s[i] = t[i]
       /\ Ord(s[k]) < Ord(t[k])

RECURSIVE Sorted(_)
\* sorted(S) of a set of strings
Sorted(S) ==
  IF S = {} THEN << >>
  ELSE LET m == CHOOSE x \in S : \A y \in S \ {x} : StrLess(x, y)
       IN <<m>> \o Sorted(S \ {m})

RECURSIVE FnMatch(_, _)
\* fnmatch of a name against a pattern whose only wildcard is *
FnMatch(pat, name) ==
  IF pat = << >> THEN name = << >>
  ELSE IF Head(pat) = "*"
       THEN \/ FnMatch(Tail(pat), name)
            \/ name # << >> /\ FnMatch(pat, Tail(name))
       ELSE /\ name # << >>
            /\ Head(name) = Head(pat)
            /\ FnMatch(Tail(pat), Tail(name))

HasMagic(pat) == \E i \in 1..Len(pat) : pat[i] = "*"

\* index of the last "." of a name, 0 when it has none (str.rfind + 1)
LastDot(name) ==
  IF \E i \in 1..Len(name) : name[i] = "."
  THEN CHOOSE i \in 1..Len(name) :
         name[i] = "." /\ \A j \in (i+1)..Len(name) : name[j] # "."
  ELSE 0

\* pathlib's PurePath.suffix: the last dot counts unless it leads or ends the name
Suffix(name) ==
  LET i == LastDot(name)
  IN IF 1 < i /\ i < Len(name) THEN SubSeq(name, i, Len(name)) ELSE << >>

\* pathlib's PurePath.with_suffix
WithSuffix(name, suffix) ==
  SubSeq(name, 1, Len(name) - Len(Suffix(name))) \o suffix

\* os.path.splitext(p)[0]: the last dot counts unless only dots precede it
SplitExtRoot(name) ==
  LET i == LastDot(name)
  IN IF i > 1 /\ \E j \in 1..(i-1) : name[j] # "."
     THEN SubSeq(name, 1, i - 1)
     ELSE name

DotPdf == <<".", "p", "d", "f">>

(***************************************************************************)
(* The file system: one directory, the working directory ".", holding the  *)
(* candidate input files and the PDFs the program writes.                  *)
(***************************************************************************)
Str_a_jpg == <<"a", ".", "j", "p", "g">>
Str_d_jpg == <<"d", ".", "j", "p", "g">>
Str_a_png == <<"a", ".", "p", "n", "g">>
Str_b_JPG == <<"b", ".", "J", "P", "G">>
Str_c_Jpg == <<"c", ".", "J", "p", "g">>
Str_n_txt == <<"n", ".", "t", "x", "t">>
Str_out_pdf == <<"o", "u", "t", ".", "p", "d", "f">>
Str_combined_pdf == <<"c", "o", "m", "b", "i", "n", "e", "d", ".", "p", "d", "f">>
Str_missing == <<"z", "z">>
Str_star_jpg == <<"*", ".", "j", "p", "g">>
Str_star == <<"*">>
DirPath == <<".">>

\* the files that may exist before the program runs
InputNames == {Str_a_jpg, Str_d_jpg, Str_a_png, Str_b_JPG, Str_c_Jpg, Str_n_txt}

\* every path of the directory the model tracks
Paths ==
  InputNames \cup {WithSuffix(n, DotPdf) : n \in InputNames}
             \cup {Str_out_pdf, Str_combined_pdf, DirPath}

Absent == [kind |-> "absent"]
ImageFile == [kind |-> "image"]
DirEntry == [kind |-> "dir"]
\* what a failed save may leave behind: the file opened for writing, not finished
PartialFile == [kind |-> "partial"]
PdfFile(pages) == [kind |-> "pdf", pages |-> pages]
\* a PDF that was at an output path before the program ran
OldPdf == PdfFile(<<[src |-> <<"o", "l", "d">>, mode |-> "RGB", size |-> <<1, 1>>]>>)

Lookup(f, p) == IF p \in DOMAIN f THEN f[p] ELSE Absent

\* Path.exists() / os.path.exists()
Exists(f, p) == Lookup(f, p).kind # "absent"

\* Path.is_dir()
IsDir(f, p) == Lookup(f, p).kind = "dir"

\* the directory's entries (the directory itself is not one of them)
Entries(f) == {p \in DOMAIN f : f[p].kind \notin {"absent", "dir"}}

(***************************************************************************)
(* Images (PIL).  A handle is its source file, colour mode and size.       *)
(***************************************************************************)
\* "L" stands for every mode other than RGB, RGBA, LA and P
Modes == {"RGB", "RGBA", "LA", "P", "L"}

A4Width == 2480
A4Height == 3508

\* the modes each candidate file's image may decode to: a JPEG has no alpha
\* or palette, the PNG has one of them, n.txt holds a palette image
ModesOf(path) ==
  IF path = Str_a_png THEN {"RGBA", "LA", "P"}
  ELSE IF path = Str_n_txt THEN {"P"}
  ELSE {"RGB", "L"}

\* the pixel size of each candidate file's image: two exceed the A4 box
SizeOf(path) ==
  IF path \in {Str_a_jpg, Str_n_txt} THEN <<4960, 3508>>
  ELSE IF path = Str_b_JPG THEN <<2000, 7016>>
  ELSE <<100, 200>>

\* the library call of one conversion that raises, if any
Faults == {"none", "open", "normalize", "resize", "save"}

\* Image.new(mode, size, white)
NewImage(mode, size) == [src |-> << >>, mode |-> mode, size |-> size]

\* Image.convert(mode)
ConvertMode(img, mode) == [img EXCEPT !.mode = mode]

\* background.paste(img, mask): the background's mode and size, img's pixels
Paste(background, img) == [background EXCEPT !.src = img.src]

\* Normalize without its elif: a mode other than RGBA, LA, P is left as it is
NormalizeAlphaOnly(img) ==
  IF img.mode \in {"RGBA", "LA", "P"}
  THEN LET background == NewImage("RGB", img.size)
           rgba == IF img.mode = "P" THEN ConvertMode(img, "RGBA") ELSE img
       IN Paste(background, rgba)
  ELSE img

\* the colour normalisation all three converters do before saving
Normalize(img) ==
  IF img.mode \in {"RGBA", "LA", "P"}
  THEN LET background == NewImage("RGB", img.size)
           rgba == IF img.mode = "P" THEN ConvertMode(img, "RGBA") ELSE img
       IN Paste(background, rgba)
  ELSE IF img.mode # "RGB"
       THEN ConvertMode(img, "RGB")
       ELSE img

Max(a, b) == IF a >= b THEN a ELSE b

\* image.thumbnail((2480, 3508)): shrink to fit, keeping the aspect ratio
Thumbnail(img) ==
  LET w == img.size[1]
      h == img.size[2]
  IN IF A4Width >= w /\ A4Height >= h THEN img
     ELSE IF A4Width * h >= A4Height * w
          THEN [img EXCEPT !.size = <<Max((A4Height * w) \div h, 1), A4Height>>]
          ELSE [img EXCEPT !.size = <<A4Width, Max((A4Width * h) \div w, 1)>>]

\* whether image.save(path) can write there
Writable(f, p) == p \in DOMAIN f /\ f[p].kind # "dir"

\* what Image.open(path) may return: the file must be an image file
Decoded(path) ==
  {[src |-> path, mode |-> m, size |-> SizeOf(path)] : m \in ModesOf(path)}

\* whether Image.open(path) raises
OpenFails(f, path, fault) == Lookup(f, path).kind # "image" \/ fault = "open"

\* the load half of a conversion: open, normalise, resize.  ok is FALSE when a
\* call raised.
LoadImage(f, path, resize_to_a4, img, fault) ==
  IF OpenFails(f, path, fault) \/ fault = "normalize"
  THEN [ok |-> FALSE, image |-> img]
  ELSE IF resize_to_a4
       THEN IF fault = "resize"
            THEN [ok |-> FALSE, image |-> img]
            ELSE [ok |-> TRUE, image |-> Thumbnail(Normalize(img))]
       ELSE [ok |-> TRUE, image |-> Normalize(img)]

\* SavePdf that does not replace a file that is already there
SavePdfKeepsExisting(f, path, pages, fault, partial) ==
  IF ~Writable(f, path) THEN [ok |-> FALSE, fs |-> f]
  ELSE IF fault = "save"
       THEN [ok |-> FALSE,
             fs |-> IF partial THEN [f EXCEPT ![path] = PartialFile] ELSE f]
       ELSE IF Exists(f, path) THEN [ok |-> TRUE, fs |-> f]
       ELSE [ok |-> TRUE, fs |-> [f EXCEPT ![path] = PdfFile(pages)]]

\* image.save(path, 'PDF', ...) of pages: the file system afterwards, and
\* whether the call returned.  A failed save leaves the file as it was or
\* unfinished (partial says which).
SavePdf(f, path, pages, fault, partial) ==
  IF ~Writable(f, path) THEN [ok |-> FALSE, fs |-> f]
  ELSE IF fault = "save"
       THEN [ok |-> FALSE,
             fs |-> IF partial THEN [f EXCEPT ![path] = PartialFile] ELSE f]
       ELSE [ok |-> TRUE, fs |-> [f EXCEPT ![path] = PdfFile(pages)]]

\* convert_image_to_pdf returning the path whether or not the save went through
convert_image_to_pdf_ReturnUnchecked(f, image_path, pdf_path, resize_to_a4, img, fault, partial) ==
  LET loaded == LoadImage(f, image_path, resize_to_a4, img, fault)
      out == IF pdf_path = None THEN WithSuffix(image_path, DotPdf) ELSE pdf_path
      saved == SavePdf(f, out, <<loaded.image>>, fault, partial)
  IN IF ~loaded.ok
     THEN [fs |-> f, ret |-> None, msg |-> "error_converting"]
     ELSE [fs |-> saved.fs, ret |-> out, msg |-> "converted"]

\* convert_image_to_pdf: the file system afterwards, the value returned and
\* the line printed
convert_image_to_pdf(f, image_path, pdf_path, resize_to_a4, img, fault, partial) ==
  LET loaded == LoadImage(f, image_path, resize_to_a4, img, fault)
      out == IF pdf_path = None THEN WithSuffix(image_path, DotPdf) ELSE pdf_path
      saved == SavePdf(f, out, <<loaded.image>>, fault, partial)
  IN IF ~loaded.ok
     THEN [fs |-> f, ret |-> None, msg |-> "error_converting"]
     ELSE IF ~saved.ok
          THEN [fs |-> saved.fs, ret |-> None, msg |-> "error_converting"]
          ELSE [fs |-> saved.fs, ret |-> out, msg |-> "converted"]

\* get_supported_formats
get_supported_formats ==
  << <<".", "j", "p", "g">>, <<".", "j", "p", "e", "g">>, <<".", "p", "n", "g">>,
     <<".", "b", "m", "p">>, <<".", "g", "i", "f">>, <<".", "t", "i", "f", "f">>,
     <<".", "w", "e", "b", "p">> >>

(***************************************************************************)
(* Globbing.                                                               *)
(***************************************************************************)
\* glob.glob(pattern) in the working directory, as a set: a pattern without a
\* wildcard names a path; * does not match a leading dot
GlobGlob(f, pat) ==
  IF pat = << >> THEN {}
  ELSE IF ~HasMagic(pat)
       THEN IF Exists(f, pat) THEN {pat} ELSE {}
       ELSE {n \in Entries(f) :
               FnMatch(pat, n) /\ (Head(n) = "." => Head(pat) = ".")}

\* Path.glob(pattern) of the directory, as a set: matched case-sensitively
PathGlob(f, pat) == {n \in Entries(f) : FnMatch(pat, n)}

\* the orders in which a directory listing may yield the files of S
Orders(S) ==
  {q \in [1..Cardinality(S) -> S] : \A i, j \in 1..Cardinality(S) : q[i] = q[j] => i = j}

\* the two patterns the scan globs for one format
ScanPatterns(fmt) == <<<<"*">> \o fmt, <<"*">> \o Upper(fmt)>>

RECURSIVE ScanFrom(_, _)
\* the lists the directory scan may build from format k on: for each format,
\* the matches of *fmt then the matches of *FMT, each in listing order
ScanFrom(f, k) ==
  IF k > Len(get_supported_formats) THEN {<< >>}
  ELSE LET pats == ScanPatterns(get_supported_formats[k])
       IN {lo \o up \o rest :
             lo \in Orders(PathGlob(f, pats[1])),
             up \in Orders(PathGlob(f, pats[2])),
             rest \in ScanFrom(f, k + 1)}

\* image_files of the directory scan (main and interactive choice 4)
ScanDirectory(f) == ScanFrom(f, 1)

RECURSIVE Strip(_)
\* str.strip() of blanks
Strip(s) ==
  IF s = << >> THEN s
  ELSE IF Head(s) = " " THEN Strip(Tail(s))
  ELSE IF s[Len(s)] = " " THEN Strip(SubSeq(s, 1, Len(s) - 1))
  ELSE s

(***************************************************************************)
(* State.                                                                  *)
(***************************************************************************)
VARIABLES
  prog,       \* which script runs: "batch" (img2pdf_converter) or "simple"
  args,       \* argparse's namespace (batch)
  argv,       \* sys.argv[1:] (simple)
  fs,         \* the file system
  pc,         \* where control is
  queue,      \* the files the running loop has not reached yet
  images,     \* convert_multiple_images_to_pdf's list of loaded images
  call,       \* the running converter call: output, resize flag, caller
  printed,    \* the lines the last step printed
  ret,        \* what the last converter call returned
  batch,      \* the file list of the running loop or combine call
  attempted,  \* the files of it handled so far, in order, each with its outcome
  branch,     \* main's dispatch branches entered so far, in order
  rounds,     \* converting menu choices taken
  choice      \* the last menu choice, stripped

vars == <<prog, args, argv, fs, pc, queue, images, call, printed, ret, batch,
          attempted, branch, rounds, choice>>

NoCall == [output |-> None, a4 |-> FALSE, caller |-> "none"]

\* sys.argv[1:] is empty: argparse then leaves every option at its default
ArgvEmpty(a) ==
  /\ a.input = None /\ a.output = None /\ a.multi = None
  /\ ~a.directory /\ ~a.resize_a4 /\ ~a.list_formats

NoArgs ==
  [input |-> None, output |-> None, multi |-> None, directory |-> FALSE,
   resize_a4 |-> FALSE, list_formats |-> FALSE]

\* the command lines of the batch converter the model starts from
ArgsSpace ==
  [input : {None, << >>, DirPath, Str_a_jpg, Str_star_jpg, Str_star, Str_missing},
   output : {None, Str_out_pdf},
   multi : {None, << >>, Str_out_pdf},
   directory : BOOLEAN,
   resize_a4 : BOOLEAN,
   list_formats : BOOLEAN]

\* the paths the simple converter may be given
SimplePaths == {Str_a_jpg, Str_a_png, Str_n_txt, Str_missing}

ArgvSpace == UNION {[1..n -> SimplePaths] : n \in 0..MaxArgv}

\* the file systems the model starts from: some input files, and possibly
\* PDFs already at two of the output paths
InitialFs(present, old) ==
  [p \in Paths |->
     IF p = DirPath THEN DirEntry
     ELSE IF p \in present THEN ImageFile
     ELSE IF old /\ p \in {Str_out_pdf, WithSuffix(Str_a_jpg, DotPdf)} THEN OldPdf
     ELSE Absent]

\* the state a script starts in
Start(script, as, av, olds) ==
  /\ prog = script
  /\ \E present \in SUBSET InputNames, old \in olds :
       /\ Cardinality(present) <= MaxFiles
       /\ fs = InitialFs(present, old)
  /\ args \in as
  /\ argv \in av
  /\ pc = IF script = "batch" THEN "main" ELSE "simple_main"
  /\ queue = << >>
  /\ images = << >>
  /\ call = NoCall
  /\ printed = << >>
  /\ ret = None
  /\ batch = << >>
  /\ attempted = << >>
  /\ branch = << >>
  /\ rounds = 0
  /\ choice = << >>

\* the batch converter run with a command line
InitMain == Start("batch", ArgsSpace, {<< >>}, BOOLEAN)

\* the simple converter run with a list of paths
InitSimple == Start("simple", {NoArgs}, ArgvSpace, BOOLEAN)

(***************************************************************************)
(* The batch converter's main.                                             *)
(***************************************************************************)
\* the branch of main's if/elif chain that a command line takes
Dispatch(a) ==
  IF a.list_formats THEN "list"
  ELSE IF ~Truthy(a.input) /\ ArgvEmpty(a) THEN "usage"
  ELSE IF a.directory /\ Truthy(a.input) THEN "directory"
  ELSE IF Truthy(a.multi) /\ Truthy(a.input) THEN "multi"
  ELSE IF Truthy(a.input) THEN "single"
  ELSE "none"

\* control after a converter call or loop returns to its caller
Return(caller) == IF caller = "menu" THEN "menu_top" ELSE "done"

\* the draws of one conversion: the decoded image, the call that raises, and
\* what a failed save leaves
Draws(path) ==
  {d \in [img : Decoded(path), fault : Faults, partial : BOOLEAN] :
     d.partial => d.fault = "save"}

\* a call of convert_multiple_images_to_pdf begins: images = []
EnterCombine(image_paths, output_pdf, resize_to_a4, caller) ==
  /\ pc' = IF image_paths = << >> THEN "combine_save" ELSE "combine_open"
  /\ queue' = image_paths
  /\ images' = << >>
  /\ call' = [output |-> output_pdf, a4 |-> resize_to_a4, caller |-> caller]
  /\ batch' = image_paths
  /\ attempted' = << >>
  /\ ret' = None

\* a loop of individual conversions begins
EnterLoop(loop, image_files, resize_to_a4, caller) ==
  /\ pc' = loop
  /\ queue' = image_files
  /\ images' = << >>
  /\ call' = [output |-> None, a4 |-> resize_to_a4, caller |-> caller]
  /\ batch' = image_files
  /\ attempted' = << >>
  /\ ret' = None

\* nothing is converted in this step
NoConversion ==
  /\ UNCHANGED <<fs, queue, images, call, ret>>
  /\ batch' = << >>
  /\ attempted' = << >>

\* one call of convert_image_to_pdf made outside a loop
ConvertOne(image_path, pdf_path, resize_to_a4) ==
  \E d \in Draws(image_path) :
    LET r == convert_image_to_pdf(fs, image_path, pdf_path, resize_to_a4,
                                  d.img, d.fault, d.partial)
    IN    /\ fs' = r.fs
          /\ ret' = r.ret
          /\ printed' = <<r.msg>>
          /\ batch' = <<image_path>>
          /\ attempted' = <<[path |-> image_path, ok |-> r.ret # None]>>
          /\ UNCHANGED <<queue, images, call>>

\* --list-formats
MainListFormats ==
  /\ pc = "main" /\ Dispatch(args) = "list"
  /\ printed' = <<"supported_formats">>
  /\ pc' = "done"
  /\ branch' = Append(branch, "list")
  /\ NoConversion
  /\ UNCHANGED <<prog, args, argv, rounds, choice>>

\* no arguments: print the help and offer interactive mode
MainUsage ==
  /\ pc = "main" /\ Dispatch(args) = "usage"
  /\ \E response \in {<<"y">>, <<" ", "Y">>, <<"n">>, << >>} :
       pc' = IF Lower(Strip(response)) = <<"y">> THEN "menu_top" ELSE "done"
  /\ printed' = <<"usage">>
  /\ branch' = Append(branch, "usage")
  /\ NoConversion
  /\ UNCHANGED <<prog, args, argv, rounds, choice>>

\* -d: scan the directory, then combine or convert each
MainDirectory ==
  /\ pc = "main" /\ Dispatch(args) = "directory"
  /\ branch' = Append(branch, "directory")
  /\ IF IsDir(fs, args.input)
     THEN \E image_files \in ScanDirectory(fs) :
            IF image_files = << >>
            THEN /\ printed' = <<"no_supported_images">>
                 /\ pc' = "done"
                 /\ NoConversion
            ELSE /\ printed' = <<"found_images">>
                 /\ UNCHANGED fs
                 /\ IF Truthy(args.multi)
                    THEN EnterCombine(image_files,
                                      IF Truthy(args.multi) THEN args.multi
                                      ELSE Str_combined_pdf,
                                      args.resize_a4, "main")
                    ELSE EnterLoop("dir_loop", image_files, args.resize_a4, "main")
     ELSE /\ printed' = <<"not_a_directory">>
          /\ pc' = "done"
          /\ NoConversion
  /\ UNCHANGED <<prog, args, argv, rounds, choice>>

\* -m without -d: combine the sorted matches of the pattern
MainMulti ==
  /\ pc = "main" /\ Dispatch(args) = "multi"
  /\ branch' = Append(branch, "multi")
  /\ LET image_files == Sorted(GlobGlob(fs, args.input))
     IN IF image_files = << >>
        THEN /\ printed' = <<"no_files_matching">>
             /\ pc' = "done"
             /\ NoConversion
        ELSE /\ printed' = << >>
             /\ UNCHANGED fs
             /\ EnterCombine(image_files, args.multi, args.resize_a4, "main")
  /\ UNCHANGED <<prog, args, argv, rounds, choice>>

\* a plain input: convert the one file
MainSingle ==
  /\ pc = "main" /\ Dispatch(args) = "single"
  /\ branch' = Append(branch, "single")
  /\ pc' = "done"
  /\ IF ~Exists(fs, args.input)
     THEN /\ printed' = <<"file_not_found">>
          /\ NoConversion
     ELSE ConvertOne(args.input, args.output, args.resize_a4)
  /\ UNCHANGED <<prog, args, argv, rounds, choice>>

\* arguments, but none that selects a branch: main falls off its end
MainNothing ==
  /\ pc = "main" /\ Dispatch(args) = "none"
  /\ pc' = "done"
  /\ printed' = << >>
  /\ NoConversion
  /\ UNCHANGED <<prog, args, argv, branch, rounds, choice>>

\* LoopStep leaving the loop at the first file that fails
LoopStepStopsOnError(loop, explicit) ==
  /\ pc = loop /\ queue # << >>
  /\ LET img_file == Head(queue)
         pdf_file == IF explicit THEN WithSuffix(img_file, DotPdf) ELSE None
     IN \E d \in Draws(img_file) :
          /\ LET r == convert_image_to_pdf(fs, img_file, pdf_file, call.a4,
                                           d.img, d.fault, d.partial)
                 over == Tail(queue) = << >> \/ r.ret = None
             IN /\ fs' = r.fs
                /\ ret' = r.ret
                /\ printed' = <<r.msg>>
                /\ attempted' = Append(attempted,
                                       [path |-> img_file, ok |-> r.ret # None])
                /\ queue' = IF over THEN << >> ELSE Tail(queue)
                /\ pc' = IF over THEN Return(call.caller) ELSE pc
                /\ call' = IF over THEN NoCall ELSE call
  /\ UNCHANGED <<prog, args, argv, images, batch, branch, rounds, choice>>

\* one iteration of a loop of individual conversions
LoopStep(loop, explicit) ==
  /\ pc = loop /\ queue # << >>
  /\ LET img_file == Head(queue)
         pdf_file == IF explicit THEN WithSuffix(img_file, DotPdf) ELSE None
     IN \E d \in Draws(img_file) :
          /\ LET r == convert_image_to_pdf(fs, img_file, pdf_file, call.a4,
                                           d.img, d.fault, d.partial)
             IN /\ fs' = r.fs
                /\ ret' = r.ret
                /\ printed' = <<r.msg>>
                /\ attempted' = Append(attempted,
                                       [path |-> img_file, ok |-> r.ret # None])
  /\ queue' = Tail(queue)
  /\ pc' = IF Tail(queue) = << >> THEN Return(call.caller) ELSE pc
  /\ call' = IF Tail(queue) = << >> THEN NoCall ELSE call
  /\ UNCHANGED <<prog, args, argv, images, batch, branch, rounds, choice>>

\* main's loop over the scanned files: the output path is passed
DirLoopStep == LoopStep("dir_loop", TRUE)

(***************************************************************************)
(* convert_multiple_images_to_pdf, one image or the save per step.         *)
(***************************************************************************)
\* CombineOpen passing over an image that fails to load
CombineOpenSkipsUnreadable ==
  /\ pc = "combine_open" /\ queue # << >>
  /\ \E d \in Draws(Head(queue)) :
       /\ d.fault # "save"
       /\ LET l == LoadImage(fs, Head(queue), call.a4, d.img, d.fault)
          IN /\ attempted' = Append(attempted, [path |-> Head(queue), ok |-> l.ok])
             /\ images' = IF l.ok THEN Append(images, l.image) ELSE images
  /\ queue' = Tail(queue)
  /\ pc' = IF Tail(queue) = << >> THEN "combine_save" ELSE pc
  /\ printed' = << >>
  /\ UNCHANGED <<prog, args, argv, fs, call, ret, batch, branch, rounds, choice>>

\* one iteration of the loading loop; a raise ends the call with False and
\* the call's locals are gone
CombineOpen ==
  /\ pc = "combine_open" /\ queue # << >>
  /\ \E d \in Draws(Head(queue)) :
       /\ d.fault # "save"
       /\ LET l == LoadImage(fs, Head(queue), call.a4, d.img, d.fault)
          IN /\ attempted' = Append(attempted, [path |-> Head(queue), ok |-> l.ok])
             /\ IF l.ok
                THEN /\ images' = Append(images, l.image)
                     /\ queue' = Tail(queue)
                     /\ pc' = IF Tail(queue) = << >> THEN "combine_save" ELSE pc
                     /\ printed' = << >>
                     /\ ret' = ret
                     /\ call' = call
                ELSE /\ images' = << >>
                     /\ queue' = << >>
                     /\ pc' = Return(call.caller)
                     /\ printed' = <<"error_multi">>
                     /\ ret' = <<"False">>
                     /\ call' = NoCall
  /\ UNCHANGED <<prog, args, argv, fs, batch, branch, rounds, choice>>

\* CombineSave without append_images: only images[0] is saved
CombineSaveFirstPageOnly ==
  /\ pc = "combine_save"
  /\ IF images # << >>
     THEN \E fault \in {"none", "save"}, partial \in BOOLEAN :
            /\ fault = "save" \/ ~partial
            /\ LET s == SavePdf(fs, call.output, <<Head(images)>>, fault, partial)
               IN /\ fs' = s.fs
                  /\ ret' = IF s.ok THEN <<"True">> ELSE <<"False">>
                  /\ printed' = IF s.ok THEN <<"created_multi">> ELSE <<"error_multi">>
     ELSE /\ fs' = fs
          /\ ret' = <<"False">>
          /\ printed' = << >>
  /\ pc' = Return(call.caller)
  /\ images' = << >>
  /\ call' = NoCall
  /\ UNCHANGED <<prog, args, argv, queue, batch, attempted, branch, rounds, choice>>

\* after the loop: save images[0] with the rest appended, if there are any
CombineSave ==
  /\ pc = "combine_save"
  /\ IF images # << >>
     THEN \E fault \in {"none", "save"}, partial \in BOOLEAN :
            /\ fault = "save" \/ ~partial
            /\ LET s == SavePdf(fs, call.output,
                                <<Head(images)>> \o Tail(images), fault, partial)
               IN /\ fs' = s.fs
                  /\ ret' = IF s.ok THEN <<"True">> ELSE <<"False">>
                  /\ printed' = IF s.ok THEN <<"created_multi">> ELSE <<"error_multi">>
     ELSE /\ fs' = fs
          /\ ret' = <<"False">>
          /\ printed' = << >>
  /\ pc' = Return(call.caller)
  /\ images' = << >>
  /\ call' = NoCall
  /\ UNCHANGED <<prog, args, argv, queue, batch, attempted, branch, rounds, choice>>

(***************************************************************************)
(* interactive_mode: one action per menu choice, the prompts' answers      *)
(* drawn as inputs.                                                        *)
(***************************************************************************)
\* what the user may type at the menu prompt
MenuInputs ==
  {<<"1">>, <<"2">>, <<"3">>, <<"4">>, <<"5">>, <<" ", "5", " ">>,
   <<"6">>, << >>}

\* the top of the while loop: the options are printed, then the prompt waits
MenuShow ==
  /\ pc = "menu_top"
  /\ pc' = "menu"
  /\ printed' = <<"options">>
  /\ choice' = << >>
  /\ ret' = None
  /\ batch' = << >>
  /\ attempted' = << >>
  /\ UNCHANGED <<prog, args, argv, fs, queue, images, call, branch, rounds>>

\* the menu prompt is answered with something that strips to c
Chosen(c) ==
  /\ pc = "menu"
  /\ \E raw \in MenuInputs : Strip(raw) = c
  /\ choice' = c

\* the paths and patterns the user may type
TypedPaths == {<< >>, Str_a_jpg, Str_missing}
TypedPatterns == {Str_star, Str_missing}
TypedFolders == {DirPath, Str_a_jpg, Str_missing}
TypedNames == {<< >>, Str_out_pdf}

\* choice 1: convert a single image
Menu1 ==
  /\ Chosen(<<"1">>) /\ rounds < MaxRounds
  /\ rounds' = rounds + 1
  /\ pc' = "menu_top"
  /\ \E img_path \in TypedPaths :
       IF img_path # << >> /\ Exists(fs, img_path)
       THEN \E typed \in TypedNames, a4 \in BOOLEAN :
              LET output_name == IF typed # << >> THEN typed ELSE None
              IN ConvertOne(img_path, output_name, a4)
       ELSE /\ printed' = <<"file_not_found_menu">>
            /\ NoConversion
  /\ UNCHANGED <<prog, args, argv, branch>>

\* choice 2: convert the matches of a pattern to individual PDFs
Menu2 ==
  /\ Chosen(<<"2">>) /\ rounds < MaxRounds
  /\ rounds' = rounds + 1
  /\ \E pattern \in TypedPatterns :
       LET image_files == Sorted(GlobGlob(fs, pattern))
       IN IF image_files # << >>
          THEN /\ \E a4 \in BOOLEAN : EnterLoop("menu2_loop", image_files, a4, "menu")
               /\ printed' = << >>
               /\ UNCHANGED fs
          ELSE /\ printed' = <<"no_files_found">>
               /\ pc' = "menu_top"
               /\ NoConversion
  /\ UNCHANGED <<prog, args, argv, branch>>

\* choice 2's loop: no output path is passed
Menu2LoopStep == LoopStep("menu2_loop", FALSE)

\* choice 3: combine the matches of a pattern into one PDF
Menu3 ==
  /\ Chosen(<<"3">>) /\ rounds < MaxRounds
  /\ rounds' = rounds + 1
  /\ \E pattern \in TypedPatterns :
       LET image_files == Sorted(GlobGlob(fs, pattern))
       IN IF image_files # << >>
          THEN /\ \E output_name \in TypedNames, a4 \in BOOLEAN :
                    EnterCombine(image_files, output_name, a4, "menu")
               /\ printed' = << >>
               /\ UNCHANGED fs
          ELSE /\ printed' = <<"no_files_found">>
               /\ pc' = "menu_top"
               /\ NoConversion
  /\ UNCHANGED <<prog, args, argv, branch>>

\* choice 4: convert all images of a folder, combined or separately
Menu4 ==
  /\ Chosen(<<"4">>) /\ rounds < MaxRounds
  /\ rounds' = rounds + 1
  /\ \E folder \in TypedFolders :
       IF IsDir(fs, folder)
       THEN \E option \in {"single", "separate", ""}, a4 \in BOOLEAN,
               image_files \in ScanDirectory(fs) :
              IF image_files # << >>
              THEN /\ printed' = << >>
                   /\ UNCHANGED fs
                   /\ IF option = "single"
                      THEN \E typed \in TypedNames :
                             LET output_name == IF typed # << >> THEN typed
                                                ELSE Str_combined_pdf
                             IN EnterCombine(image_files, output_name, a4, "menu")
                      ELSE EnterLoop("menu4_loop", image_files, a4, "menu")
              ELSE /\ printed' = <<"no_images_in_folder">>
                   /\ pc' = "menu_top"
                   /\ NoConversion
       ELSE /\ printed' = <<"folder_not_found">>
            /\ pc' = "menu_top"
            /\ NoConversion
  /\ UNCHANGED <<prog, args, argv, branch>>

\* choice 4's loop over the scanned files: no output path is passed
Menu4LoopStep == LoopStep("menu4_loop", FALSE)

\* choice 5: leave the loop
MenuExit ==
  /\ Chosen(<<"5">>)
  /\ printed' = <<"goodbye">>
  /\ pc' = "done"
  /\ NoConversion
  /\ UNCHANGED <<prog, args, argv, branch, rounds>>

\* MenuInvalid leaving the loop
MenuInvalidLeaves ==
  /\ pc = "menu"
  /\ \E raw \in MenuInputs :
       /\ Strip(raw) \notin {<<"1">>, <<"2">>, <<"3">>, <<"4">>, <<"5">>}
       /\ choice' = Strip(raw)
  /\ printed' = <<"invalid_choice">>
  /\ pc' = "done"
  /\ NoConversion
  /\ UNCHANGED <<prog, args, argv, branch, rounds>>

\* anything else
MenuInvalid ==
  /\ pc = "menu"
  /\ \E raw \in MenuInputs :
       /\ Strip(raw) \notin {<<"1">>, <<"2">>, <<"3">>, <<"4">>, <<"5">>}
       /\ choice' = Strip(raw)
  /\ printed' = <<"invalid_choice">>
  /\ pc' = "menu_top"
  /\ NoConversion
  /\ UNCHANGED <<prog, args, argv, branch, rounds>>

(***************************************************************************)
(* The simple converter.                                                   *)
(***************************************************************************)
\* the body of simple_img2pdf's try block for one existing path
simple_convert(f, img_path, img, fault, partial) ==
  LET loaded == LoadImage(f, img_path, FALSE, img, fault)
      pdf_path == SplitExtRoot(img_path) \o DotPdf
      saved == SavePdf(f, pdf_path, <<loaded.image>>, fault, partial)
  IN IF ~loaded.ok
     THEN [fs |-> f, ret |-> None, msg |-> "error_converting"]
     ELSE IF ~saved.ok
          THEN [fs |-> saved.fs, ret |-> None, msg |-> "error_converting"]
          ELSE [fs |-> saved.fs, ret |-> pdf_path, msg |-> "converted"]

\* no paths given: print the usage; else start the loop over sys.argv[1:]
SimpleMain ==
  /\ pc = "simple_main"
  /\ IF Len(argv) < 1
     THEN /\ printed' = <<"usage">>
          /\ pc' = "done"
          /\ NoConversion
     ELSE /\ printed' = << >>
          /\ UNCHANGED fs
          /\ EnterLoop("simple_loop", argv, FALSE, "main")
  /\ UNCHANGED <<prog, args, argv, branch, rounds, choice>>

\* one iteration of the simple converter's loop
SimpleLoopStep ==
  /\ pc = "simple_loop" /\ queue # << >>
  /\ LET img_path == Head(queue)
     IN IF Exists(fs, img_path)
        THEN \E d \in Draws(img_path) :
               LET r == simple_convert(fs, img_path, d.img, d.fault, d.partial)
               IN /\ fs' = r.fs
                  /\ ret' = r.ret
                  /\ printed' = <<r.msg>>
                  /\ attempted' = Append(attempted,
                                         [path |-> img_path, ok |-> r.ret # None])
        ELSE /\ printed' = <<"file_not_found">>
             /\ ret' = None
             /\ attempted' = Append(attempted, [path |-> img_path, ok |-> FALSE])
             /\ UNCHANGED fs
  /\ queue' = Tail(queue)
  /\ pc' = IF Tail(queue) = << >> THEN "done" ELSE pc
  /\ UNCHANGED <<prog, args, argv, images, call, batch, branch, rounds, choice>>

Init == InitMain \/ InitSimple

\* the loops of individual conversions
LoopSteps == DirLoopStep \/ Menu2LoopStep \/ Menu4LoopStep \/ SimpleLoopStep

Next ==
  \/ MainListFormats
  \/ MainUsage
  \/ MainDirectory
  \/ MainMulti
  \/ MainSingle
  \/ MainNothing
  \/ DirLoopStep
  \/ CombineOpen
  \/ CombineSave
  \/ MenuShow
  \/ Menu1
  \/ Menu2
  \/ Menu2LoopStep
  \/ Menu3
  \/ Menu4
  \/ Menu4LoopStep
  \/ MenuExit
  \/ MenuInvalid
  \/ SimpleMain
  \/ SimpleLoopStep

Spec == Init /\ [][Next]_vars

\* the scripts run synchronously: a loop that has a next file goes on to it
FairSpec == Spec /\ WF_vars(LoopSteps)

(***************************************************************************)
(* Properties.                                                             *)
(***************************************************************************)
Range(q) == {q[i] : i \in 1..Len(q)}

\* the paths of the files handled so far
PathsOf(att) == [i \in 1..Len(att) |-> att[i].path]

Last(q) == q[Len(q)]

LoopPcs == {"dir_loop", "menu2_loop", "menu4_loop", "simple_loop"}

ConvMsgs == {<<"converted">>, <<"error_converting">>}

\* C1: convert_multiple_images_to_pdf is all-or-nothing.  No step of its
\* loading loop touches the file system; a step whose image loads appends it
\* and goes on, reaching the save only when every image of the input is
\* loaded; a step whose image fails to open, normalise or resize ends the
\* call with False and an error line, without reaching the save.
C1_CombineAllOrNothing ==
  [][pc = "combine_open" =>
       /\ fs' = fs
       /\ IF Last(attempted').ok
          THEN /\ Len(images') = Len(images) + 1
               /\ pc' \in {"combine_open", "combine_save"}
               /\ pc' = "combine_save" <=> Len(images') = Len(batch)
          ELSE /\ ret' = <<"False">>
               /\ printed' = <<"error_multi">>
               /\ pc' \notin {"combine_open", "combine_save"}]_vars

\* C1 happens: the second of three images failed after the first loaded, and
\* the PDF that was at the output path is still there
C1_Witness ==
  /\ pc = "done" /\ ret = <<"False">> /\ printed = <<"error_multi">>
  /\ Len(attempted) = 2 /\ Len(batch) = 3
  /\ attempted[1].ok /\ ~attempted[2].ok
  /\ args.multi = Str_out_pdf /\ fs[Str_out_pdf] = OldPdf

\* C2: when the batch converter's combine call succeeds, the output PDF has
\* one page per input image, page i from the i-th image; in the -m (glob)
\* branch the input is the pattern's matches in increasing string order.
C2_PagesFollowInput ==
  (prog = "batch" /\ pc = "done" /\ printed = <<"created_multi">>) =>
    /\ fs[args.multi].kind = "pdf"
    /\ Len(fs[args.multi].pages) = Len(batch)
    /\ \A i \in 1..Len(batch) : fs[args.multi].pages[i].src = batch[i]
    /\ branch = <<"multi">> =>
         /\ \A i, j \in 1..Len(batch) : i < j => StrLess(batch[i], batch[j])
         /\ Range(batch) \subseteq GlobGlob(fs, args.input)
         /\ GlobGlob(fs, args.input) \ {args.multi} \subseteq Range(batch)

\* C2 happens: three matches combined in the -m branch
C2_Witness ==
  /\ pc = "done" /\ printed = <<"created_multi">> /\ branch = <<"multi">>
  /\ Len(batch) = 3 /\ Len(fs[Str_out_pdf].pages) = 3

\* the size a page of source src has without and with the A4 resize
KeptSize(page) == page.size = SizeOf(page.src)
ShrunkSize(page) ==
  page.size = Thumbnail([src |-> page.src, mode |-> "RGB", size |-> SizeOf(page.src)]).size

\* C3: every image handed to the PDF encoder (every page of every PDF
\* written, every image loaded for a combine) is in RGB mode; without the A4
\* resize its size is its source's size.
C3_EncodedImagesAreRGB ==
  /\ \A i \in 1..Len(images) : images[i].mode = "RGB"
  /\ \A p \in Paths :
       fs[p].kind = "pdf" =>
         \A i \in 1..Len(fs[p].pages) :
           LET page == fs[p].pages[i]
           IN /\ page.mode = "RGB"
              /\ page.src \in InputNames =>
                   IF prog = "simple" \/ (branch # <<"usage">> /\ ~args.resize_a4)
                   THEN KeptSize(page)
                   ELSE IF branch # <<"usage">> THEN ShrunkSize(page)
                   ELSE KeptSize(page) \/ ShrunkSize(page)

\* C3 happens: a PDF holds a page from the PNG (alpha or palette), one from a
\* JPEG and one from the palette image n.txt
C3_Witness ==
  /\ fs[Str_out_pdf].kind = "pdf"
  /\ {Str_a_png, Str_n_txt, Str_a_jpg} \subseteq
       {fs[Str_out_pdf].pages[i].src : i \in 1..Len(fs[Str_out_pdf].pages)}

\* C4: every call of convert_image_to_pdf returns.  When it returns a path,
\* that path is the explicit output (main's -o, or the name typed at the menu)
\* or else the input with its suffix replaced by .pdf, the file there is now a
\* one-page PDF of the input, whatever was there before, and no other file
\* changed.  Otherwise it returns None with an error line, and no PDF was
\* written.
C4_SingleConversion ==
  [][(prog = "batch" /\ printed' \in ConvMsgs) =>
       LET image_path == Last(attempted').path
           default == WithSuffix(image_path, DotPdf)
       IN IF ret' # None
          THEN /\ printed' = <<"converted">>
               /\ IF pc = "main"
                  THEN ret' = IF args.output # None THEN args.output ELSE default
                  ELSE ret' = default \/ (pc = "menu" /\ ret' \in TypedNames)
               /\ fs'[ret'].kind = "pdf"
               /\ Len(fs'[ret'].pages) = 1
               /\ fs'[ret'].pages[1].src = image_path
               /\ \A p \in Paths \ {ret'} : fs'[p] = fs[p]
          ELSE /\ printed' = <<"error_converting">>
               /\ \A p \in Paths : fs'[p] = fs[p] \/ fs'[p] = PartialFile]_vars

\* C4 happens: a.jpg was converted to the explicit output path, where a PDF
\* already was
C4_Witness ==
  /\ pc = "done" /\ branch = <<"single">> /\ args.input = Str_a_jpg
  /\ args.output = Str_out_pdf /\ ret = Str_out_pdf
  /\ fs[Str_out_pdf].kind = "pdf" /\ fs[Str_out_pdf].pages[1].src = Str_a_jpg
  /\ fs[WithSuffix(Str_a_jpg, DotPdf)] = OldPdf

\* C5: in a loop of individual conversions the files handled so far followed
\* by the files still to come are the batch, in order; and, the script running
\* on, the loop ends with every file of the batch handled once, in order,
\* whatever each one's outcome.
C5_BatchAttemptsAll ==
  /\ [](pc \in LoopPcs => PathsOf(attempted) \o queue = batch /\ queue # << >>)
  /\ (pc \in LoopPcs) ~> (pc \notin LoopPcs /\ PathsOf(attempted) = batch)

\* C5 happens: a batch ended whose first file failed and whose later files
\* were converted
C5_Witness ==
  /\ pc = "done" /\ Len(batch) = 3 /\ PathsOf(attempted) = batch
  /\ ~attempted[1].ok /\ attempted[2].ok /\ attempted[3].ok
  /\ printed = <<"converted">>

\* the branch of main the spec gives a command line: an option or input is
\* given when it is on the command line
ClaimedBranch(a) ==
  IF a.list_formats THEN <<"list">>
  ELSE IF ArgvEmpty(a) THEN <<"usage">>
  ELSE IF a.directory /\ a.input # None THEN <<"directory">>
  ELSE IF a.multi # None /\ a.input # None THEN <<"multi">>
  ELSE IF a.input # None THEN <<"single">>
  ELSE << >>

\* C6: main takes at most one branch, the one the precedence order gives; a
\* branch whose path is missing, is no directory or matches nothing prints a
\* message and calls no converter.
C6_DispatchPrecedence ==
  (prog = "batch" /\ pc # "main") =>
    /\ branch = ClaimedBranch(args)
    /\ branch = <<"list">> => attempted = << >> /\ printed = <<"supported_formats">>
    /\ (pc = "done" /\ branch = <<"single">> /\ ~Exists(fs, args.input)) =>
         attempted = << >> /\ printed = <<"file_not_found">>
    /\ (pc = "done" /\ branch = <<"directory">> /\ ~IsDir(fs, args.input)) =>
         attempted = << >> /\ printed = <<"not_a_directory">>
    /\ (pc = "done" /\ branch = <<"multi">> /\ GlobGlob(fs, args.input) = {}) =>
         attempted = << >> /\ printed = <<"no_files_matching">>

\* the files of the directory with a supported extension, compared without
\* regard to case
SupportedFiles(f) ==
  {n \in InputNames :
     f[n].kind = "image" /\ Lower(Suffix(n)) \in Range(get_supported_formats)}

\* C7: the directory scan returns exactly the files whose extension is a
\* supported one, compared case-insensitively.
C7_ScanCaseInsensitive ==
  (prog = "batch" /\ branch = <<"directory">> /\ IsDir(fs, args.input)
     /\ pc \in {"dir_loop", "combine_open"}) =>
    Range(batch) = SupportedFiles(fs)

InSession == prog = "batch" /\ branch = <<"usage">> /\ pc \notin {"main", "done"}

ValidChoices == {<<"1">>, <<"2">>, <<"3">>, <<"4">>, <<"5">>}

\* C8: in an interactive session control leaves the loop only from the prompt
\* on choice 5; every other step stays in the session, and the top of the loop
\* leads to the prompt; an input that is none of 1..5 prints "Invalid choice!",
\* converts nothing and goes back to the top of the loop.
C8_MenuExitsOnlyOnFive ==
  [][InSession =>
       /\ pc' = "done" <=> (pc = "menu" /\ choice' = <<"5">>)
       /\ pc = "menu_top" => pc' = "menu"
       /\ (pc = "menu" /\ choice' \notin ValidChoices) =>
            /\ printed' = <<"invalid_choice">>
            /\ pc' = "menu_top"
            /\ fs' = fs /\ attempted' = << >> /\ images' = << >>]_vars

\* C8 happens: back at the prompt after a choice whose conversion failed
C8_Witness ==
  /\ pc = "menu_top" /\ rounds >= 1 /\ choice = <<"1">>
  /\ printed = <<"error_converting">> /\ ret = None

\* C9: in main's directory branch, --multi given combines the scanned images
\* into one PDF, named combined.pdf in that directory when no name is given;
\* --multi not given converts each image to the same name with .pdf.
C9_DirectoryCombineOrEach ==
  (prog = "batch" /\ branch = <<"directory">> /\ pc = "done" /\ batch # << >>) =>
    IF args.multi # None
    THEN /\ printed \in {<<"created_multi">>, <<"error_multi">>}
         /\ printed = <<"created_multi">> =>
              LET out == IF args.multi = << >> THEN Str_combined_pdf ELSE args.multi
              IN /\ fs[out].kind = "pdf"
                 /\ [i \in 1..Len(fs[out].pages) |-> fs[out].pages[i].src] = batch
    ELSE /\ printed \in ConvMsgs
         /\ PathsOf(attempted) = batch
         /\ Last(attempted).ok =>
              fs[WithSuffix(Last(batch), DotPdf)].kind = "pdf"

\* the output path of a file in a loop of individual conversions
OutOf(path) ==
  IF prog = "simple" THEN SplitExtRoot(path) \o DotPdf ELSE WithSuffix(path, DotPdf)

\* a loop of individual conversions has ended with every file converted
BatchConverted ==
  /\ pc \in {"done", "menu_top"}
  /\ printed = <<"converted">>
  /\ branch # <<"single">> /\ choice # <<"1">>
  /\ batch # << >> /\ PathsOf(attempted) = batch
  /\ \A i \in 1..Len(attempted) : attempted[i].ok

\* C10: after a loop of individual conversions in which every file converted,
\* each file's output path (its own path with the extension replaced by .pdf)
\* holds the one-page PDF of the last file of the batch with that output
\* path; so there are as many PDFs as distinct extension-stripped paths.
C10_LastWriterWins ==
  BatchConverted =>
    /\ \A i \in 1..Len(batch) :
         LET last == CHOOSE j \in 1..Len(batch) :
                       /\ OutOf(batch[j]) = OutOf(batch[i])
                       /\ \A k \in (j+1)..Len(batch) : OutOf(batch[k]) # OutOf(batch[i])
             out == fs[OutOf(batch[i])]
         IN /\ out.kind = "pdf"
            /\ Len(out.pages) = 1
            /\ out.pages[1].src = batch[last]
    /\ Cardinality({p \in Paths : fs[p].kind = "pdf" /\ p \in {OutOf(b) : b \in Range(batch)}})
         = Cardinality({WithSuffix(b, << >>) : b \in Range(batch)})

\* C10 happens: a.jpg and a.png of one batch both wrote a.pdf, which holds a.png
C10_Witness ==
  /\ BatchConverted
  /\ {Str_a_jpg, Str_a_png} \subseteq Range(batch)
  /\ fs[WithSuffix(Str_a_jpg, DotPdf)].pages[1].src = Str_a_png

====
